---- MODULE Spec2Model ----
(***************************************************************************)
(* DataWeave AI (lumoonMagic/DBQuery): the Streamlit chat application of   *)
(* app.py and the Databricks connector of modules/databricks_connector.py. *)
(*                                                                         *)
(* Three specifications share the variables below:                         *)
(*   Spec      one user interaction and the script rerun it triggers       *)
(*             (app.py is run top to bottom on every interaction);         *)
(*   GenSpec   demo_generate_sql applied to bounded prompts;               *)
(*   ConnSpec  one call of run_sql, request by request (ConnLive adds the  *)
(*             fairness of a running Python call).                         *)
(***************************************************************************)
EXTENDS Integers, Sequences, FiniteSets, TLC

\* ------------------------------------------------------------------ bounds
MaxPromptWords == 3
MaxMessages == 3
MaxPinned == 2
SampleFileRows == 12
MaxLatency == 1
MaxDirs == 2

\* ------------------------------------------------------------------- text
(* A text is a sequence of words separated by single spaces; Spell gives a *)
(* word's characters, so lower(), `in` and + act on characters as Python's *)
(* do.                                                                     *)
Spelling ==
     "" :> <<>>
  @@ "DEMO" :> <<"D", "E", "M", "O">>
  @@ "demo" :> <<"d", "e", "m", "o">>
  @@ "Show" :> <<"S", "h", "o", "w">>
  @@ "top" :> <<"t", "o", "p">>
  @@ "5" :> <<"5">>
  @@ "vendors" :> <<"v", "e", "n", "d", "o", "r", "s">>
  @@ "in" :> <<"i", "n">>
  @@ "US" :> <<"U", "S">>
  @@ "by" :> <<"b", "y">>
  @@ "on-time" :> <<"o", "n", "-", "t", "i", "m", "e">>
  @@ "delivery" :> <<"d", "e", "l", "i", "v", "e", "r", "y">>
  @@ "rate" :> <<"r", "a", "t", "e">>
  @@ "Break" :> <<"B", "r", "e", "a", "k">>
  @@ "this" :> <<"t", "h", "i", "s">>
  @@ "down" :> <<"d", "o", "w", "n">>
  @@ "product" :> <<"p", "r", "o", "d", "u", "c", "t">>
  @@ "category" :> <<"c", "a", "t", "e", "g", "o", "r", "y">>
  @@ "Trace" :> <<"T", "r", "a", "c", "e">>
  @@ "batch" :> <<"b", "a", "t", "c", "h">>
  @@ "B2025001" :> <<"B", "2", "0", "2", "5", "0", "0", "1">>
  @@ "from" :> <<"f", "r", "o", "m">>
  @@ "vendor" :> <<"v", "e", "n", "d", "o", "r">>
  @@ "to" :> <<"t", "o">>
  @@ "distribution" :> <<"d", "i", "s", "t", "r", "i", "b", "u", "t", "i", "o", "n">>
  @@ "center" :> <<"c", "e", "n", "t", "e", "r">>
  @@ "hospital" :> <<"h", "o", "s", "p", "i", "t", "a", "l">>
  @@ "Upload" :> <<"U", "p", "l", "o", "a", "d">>
  @@ "SLA" :> <<"S", "L", "A">>
  @@ "and" :> <<"a", "n", "d">>
  @@ "ask:" :> <<"a", "s", "k", ":">>
  @@ "What" :> <<"W", "h", "a", "t">>
  @@ "does" :> <<"d", "o", "e", "s">>
  @@ "OTIF" :> <<"O", "T", "I", "F">>
  @@ "mean?" :> <<"m", "e", "a", "n", "?">>
  @@ "Top" :> <<"T", "o", "p">>
  @@ "VENDOR" :> <<"V", "E", "N", "D", "O", "R">>
  @@ "lowest" :> <<"l", "o", "w", "e", "s", "t">>
  @@ "low" :> <<"l", "o", "w">>
  @@ "slow" :> <<"s", "l", "o", "w">>
  @@ "stop" :> <<"s", "t", "o", "p">>
  @@ "trace" :> <<"t", "r", "a", "c", "e">>
  @@ "SELECT" :> <<"S", "E", "L", "E", "C", "T">>
  @@ "vendor_id," :> <<"v", "e", "n", "d", "o", "r", "_", "i", "d", ",">>
  @@ "vendor_name," :> <<"v", "e", "n", "d", "o", "r", "_", "n", "a", "m", "e", ",">>
  @@ "on_time_delivery_rate" :> <<"o", "n", "_", "t", "i", "m", "e", "_", "d", "e", "l", "i", "v", "e", "r", "y", "_", "r", "a", "t", "e">>
  @@ "FROM" :> <<"F", "R", "O", "M">>
  @@ "demo_vendors" :> <<"d", "e", "m", "o", "_", "v", "e", "n", "d", "o", "r", "s">>
  @@ "ORDER" :> <<"O", "R", "D", "E", "R">>
  @@ "BY" :> <<"B", "Y">>
  @@ "DESC" :> <<"D", "E", "S", "C">>
  @@ "LIMIT" :> <<"L", "I", "M", "I", "T">>
  @@ "5;" :> <<"5", ";">>
  @@ "ASC" :> <<"A", "S", "C">>
  @@ "batch_id," :> <<"b", "a", "t", "c", "h", "_", "i", "d", ",">>
  @@ "material_name," :> <<"m", "a", "t", "e", "r", "i", "a", "l", "_", "n", "a", "m", "e", ",">>
  @@ "status" :> <<"s", "t", "a", "t", "u", "s">>
  @@ "demo_batches" :> <<"d", "e", "m", "o", "_", "b", "a", "t", "c", "h", "e", "s">>
  @@ "WHERE" :> <<"W", "H", "E", "R", "E">>
  @@ "batch_id='B2025001';" :> <<"b", "a", "t", "c", "h", "_", "i", "d", "=", "'", "B", "2", "0", "2", "5", "0", "0", "1", "'", ";">>
  @@ "--" :> <<"-", "-">>
  @@ "DEMO:" :> <<"D", "E", "M", "O", ":">>
  @@ "refine" :> <<"r", "e", "f", "i", "n", "e">>
  @@ "prompt:" :> <<"p", "r", "o", "m", "p", "t", ":">>
  @@ "try" :> <<"t", "r", "y">>
  @@ "'top" :> <<"'", "t", "o", "p">>
  @@ "vendors'" :> <<"v", "e", "n", "d", "o", "r", "s", "'">>
  @@ "or" :> <<"o", "r">>
  @@ "'trace" :> <<"'", "t", "r", "a", "c", "e">>
  @@ "B2025001'" :> <<"B", "2", "0", "2", "5", "0", "0", "1", "'">>
  @@ "refined" :> <<"r", "e", "f", "i", "n", "e", "d">>
  @@ "REAL" :> <<"R", "E", "A", "L">>
  @@ "MODE:" :> <<"M", "O", "D", "E", ":">>
  @@ "SQL" :> <<"S", "Q", "L">>
  @@ "generated" :> <<"g", "e", "n", "e", "r", "a", "t", "e", "d">>
  @@ "for" :> <<"f", "o", "r">>

Spell(w) == Spelling[w]

RECURSIVE Chars(_)
Chars(text) ==
  IF text = <<>> THEN <<>>
  ELSE IF Len(text) = 1 THEN Spell(text[1])
  ELSE Spell(text[1]) \o <<" ">> \o Chars(Tail(text))

UpperCase == <<"A","B","C","D","E","F","G","H","I","J","K","L","M",
               "N","O","P","Q","R","S","T","U","V","W","X","Y","Z">>
LowerCase == <<"a","b","c","d","e","f","g","h","i","j","k","l","m",
               "n","o","p","q","r","s","t","u","v","w","x","y","z">>

\* str.lower() on one character
LowerChar(c) ==
  IF \E i \in 1..26 : UpperCase[i] = c
  THEN LowerCase[CHOOSE i \in 1..26 : UpperCase[i] = c]
  ELSE c

\* str.lower()
lower(cs) == [i \in 1..Len(cs) |-> LowerChar(cs[i])]

\* Python's `kw in cs` on strings: kw occurs as a contiguous run of cs
In(kw, cs) ==
  \E i \in 1..(Len(cs) - Len(kw) + 1) : SubSeq(cs, i, i + Len(kw) - 1) = kw

\* str.strip(): leading and trailing white space removed (an empty word at an
\* end of a text stands for a space there)
RECURSIVE strip(_)
strip(text) ==
  IF text = <<>> THEN <<>>
  ELSE IF text[1] = "" THEN strip(Tail(text))
  ELSE IF text[Len(text)] = "" THEN strip(SubSeq(text, 1, Len(text) - 1))
  ELSE text

\* prompt[:n]: the longest prefix of whole words of at most n characters
\* (every prompt of the model is shorter than the 120 of app.py:326)
RECURSIVE Prefix(_, _)
Prefix(text, n) ==
  IF text = <<>> \/ Len(Chars(text)) <= n THEN text
  ELSE Prefix(SubSeq(text, 1, Len(text) - 1), n)

PromptCut == 120

\* ------------------------------------------------- demo_generate_sql
SqlTopVendors ==
  <<"SELECT", "vendor_id,", "vendor_name,", "on_time_delivery_rate", "FROM",
    "demo_vendors", "ORDER", "BY", "on_time_delivery_rate", "DESC", "LIMIT", "5;">>
SqlLowVendors ==
  <<"SELECT", "vendor_id,", "vendor_name,", "on_time_delivery_rate", "FROM",
    "demo_vendors", "ORDER", "BY", "on_time_delivery_rate", "ASC", "LIMIT", "5;">>
SqlTraceBatch ==
  <<"SELECT", "batch_id,", "material_name,", "vendor_id,", "status", "FROM",
    "demo_batches", "WHERE", "batch_id='B2025001';">>
SqlDefault ==
  <<"--", "DEMO:", "refine", "prompt:", "try", "'top", "vendors'", "or",
    "'trace", "batch", "B2025001'">>

PairTopVendors ==
  [sql |-> SqlTopVendors,
   rationale |-> "Rank vendors by on-time delivery rate to identify top performers."]
PairLowVendors ==
  [sql |-> SqlLowVendors,
   rationale |-> "Find vendors with the lowest on-time delivery rate to investigate causes."]
PairTraceBatch ==
  [sql |-> SqlTraceBatch, rationale |-> "Trace lineage of batch B2025001."]
PairDefault ==
  [sql |-> SqlDefault, rationale |-> "No strong mapping."]

KwTop == <<"t","o","p">>
KwVendor == <<"v","e","n","d","o","r">>
KwLowest == <<"l","o","w","e","s","t">>
KwLow == <<"l","o","w">>
KwTrace == <<"t","r","a","c","e">>
KwBatch == <<"b","a","t","c","h">>

\* the `lowest` test tried before the `top` test
demo_generate_sql_low_first(prompt) ==
  LET p == lower(Chars(prompt)) IN
  IF In(KwLowest, p) \/ (In(KwLow, p) /\ In(KwVendor, p)) THEN PairLowVendors
  ELSE IF In(KwTop, p) /\ In(KwVendor, p) THEN PairTopVendors
  ELSE IF In(KwTrace, p) /\ In(KwBatch, p) THEN PairTraceBatch
  ELSE PairDefault

demo_generate_sql(prompt) ==
  LET p == lower(Chars(prompt)) IN
  IF In(KwTop, p) /\ In(KwVendor, p) THEN PairTopVendors
  ELSE IF In(KwLowest, p) \/ (In(KwLow, p) /\ In(KwVendor, p)) THEN PairLowVendors
  ELSE IF In(KwTrace, p) /\ In(KwBatch, p) THEN PairTraceBatch
  ELSE PairDefault

\* ------------------------------------------------------------ variables
VARIABLES
  \* st.session_state of app.py
  messages, generated_sql, sql_rationale, last_result, pinned, demo_mode,
  expert_mode, config, open_settings, demo_step_index,
  \* the widgets the last script run put on the page, and the View radio
  screen, view,
  \* the world outside the session: config/settings.json, the wall clock
  fs, now,
  \* what the script runs did: the connector calls made so far, and the file
  \* offered for download and the notices shown by the last run
  connector_calls, download, notices,
  \* demo_generate_sql under GenSpec
  g_prompt, g_result,
  \* one call of run_sql under ConnSpec: its config and HAS_DBSQL, where the
  \* call stands, the requests it has made, time.time() and start_ts, the
  \* last run state read, the output directories left to look into, and what
  \* run_sql_via_jobs_api and run_sql ended with
  c_config, c_has_dbsql, c_pc, c_requests, c_clock, c_start, c_run, c_dirs,
  c_jobs, c_result,
  \* calls of sync_schema_to_neo4j under NeoSpec: NEO4J_AVAILABLE, the config
  \* and schema object passed, where the call stands, the graph in the
  \* database, the graph when the call began, the statements the call has
  \* issued, and how the calls so far ended
  n_available, n_config, n_schema, n_pc, n_graph, n_start, n_issued, n_returns,
  \* one call into modules/vector_engine.py under VecSpec: the uploaded
  \* files, vec_config, CHROMADB_AVAILABLE, the grounding directory, which
  \* function was called, and what store_documents_and_embeddings and
  \* _local_embed_texts returned
  v_files, v_config, v_chromadb, v_dir, v_pc, v_stored, v_embs

app_vars == <<messages, generated_sql, sql_rationale, last_result, pinned,
              demo_mode, expert_mode, config, open_settings, demo_step_index,
              screen, view, fs, now, connector_calls, download, notices>>
gen_vars == <<g_prompt, g_result>>
conn_vars == <<c_config, c_has_dbsql, c_pc, c_requests, c_clock, c_start,
               c_run, c_dirs, c_jobs, c_result>>
neo_vars == <<n_available, n_config, n_schema, n_pc, n_graph, n_start,
              n_issued, n_returns>>
vec_vars == <<v_files, v_config, v_chromadb, v_dir, v_pc, v_stored, v_embs>>
lib_vars == <<neo_vars, vec_vars>>
vars == <<app_vars, gen_vars, conn_vars, lib_vars>>

None == "None"

\* ------------------------------------------------------- module imports
(* `from modules.X import Y` binds Y when module X defines the name Y and  *)
(* raises ImportError otherwise; app.py catches it and binds None.         *)
DatabricksConnectorModule ==
  {"test_sql_connection", "run_sql", "run_sql_via_jobs_api",
   "run_sql_via_http_query", "HAS_DBSQL", "dbsql", "pd", "requests",
   "os", "time", "base64", "json", "Tuple", "Optional"}
ExportPptModule ==
  {"create_pptx_from_insights", "_df_to_image", "_ensure_dependencies",
   "Presentation", "plt", "pd", "Path", "time", "io", "os"}

FromImport(module, name) == IF name \in module THEN name ELSE None

DatabricksConnector == FromImport(DatabricksConnectorModule, "DatabricksConnector")
BoardExporter == FromImport(ExportPptModule, "BoardExporter")

\* ------------------------------------------------------------ data frames
(* A DataFrame is known by where it came from and its number of rows.      *)
NoneDF == [kind |-> "None", origin |-> "-", rows |-> 0, error |-> ""]
BuiltinVendorsDF == [kind |-> "vendors", origin |-> "builtin", rows |-> 3, error |-> ""]
BuiltinBatchesDF == [kind |-> "batches", origin |-> "builtin", rows |-> 1, error |-> ""]
NoMatchDF == [kind |-> "message", origin |-> "builtin", rows |-> 1, error |-> ""]
FileDF(kind, rows) == [kind |-> kind, origin |-> "file", rows |-> rows, error |-> ""]
ErrorDF(e) == [kind |-> "error", origin |-> "builtin", rows |-> 1, error |-> e]
QueryDF(rows) == [kind |-> "query", origin |-> "databricks", rows |-> rows, error |-> ""]

\* a file of DEMO_DIR: absent, or present with SampleFileRows rows
AbsentFile == [exists |-> FALSE, rows |-> 0]
DemoFiles == {AbsentFile, [exists |-> TRUE, rows |-> SampleFileRows]}

NoDemoFiles == [vendor_performance |-> AbsentFile, supply_chain_sample |-> AbsentFile]
DemoDirs == [vendor_performance : DemoFiles, supply_chain_sample : DemoFiles]

load_demo_vendors_df(files) ==
  IF files.vendor_performance.exists
  THEN FileDF("vendors", files.vendor_performance.rows)
  ELSE BuiltinVendorsDF

load_demo_batches_df(files) ==
  IF files.supply_chain_sample.exists
  THEN FileDF("batches", files.supply_chain_sample.rows)
  ELSE BuiltinBatchesDF

\* df.select_dtypes(include="number").columns: the vendor sample has the
\* numeric columns on_time_delivery_rate and quality_score
HasNumeric(df) == df.kind = "vendors"

\* ------------------------------------------------------------- execute_sql
KwDemoVendors == <<"d","e","m","o","_","v","e","n","d","o","r","s">>
KwDemoBatches == <<"d","e","m","o","_","b","a","t","c","h","e","s">>

\* what DatabricksConnector(...).execute_query(sql) can do when the class is
\* bound: return rows or raise
ConnectorOutcomes == {[raised |-> FALSE, rows |-> r] : r \in 0..1}
                       \cup {[raised |-> TRUE, rows |-> 0]}

\* execute_sql with the real-mode branch taken whatever the mode
execute_sql_always_real(sql_text, demo, cfg, files, outcome) ==
  IF DatabricksConnector = None
  THEN [df |-> ErrorDF("Databricks connector not available."), calls |-> <<>>]
  ELSE [df |-> IF outcome.raised THEN ErrorDF("connector error")
               ELSE QueryDF(outcome.rows),
        calls |-> <<[config |-> cfg.databricks, sql |-> sql_text]>>]

\* execute_sql that hands back None when the connector is not there
execute_sql_none_on_failure(sql_text, demo, cfg, files, outcome) ==
  IF ~demo /\ DatabricksConnector = None
  THEN [df |-> NoneDF, calls |-> <<>>]
  ELSE execute_sql_always_real(sql_text, demo, cfg, files, outcome)

\* [df: the frame returned, calls: the connector calls made]
execute_sql(sql_text, demo, cfg, files, outcome) ==
  LET s == Chars(sql_text) IN
  IF demo THEN
    IF In(KwDemoVendors, s) \/ In(KwVendor, s)
    THEN [df |-> load_demo_vendors_df(files), calls |-> <<>>]
    ELSE IF In(KwDemoBatches, s) \/ In(KwBatch, s)
    THEN [df |-> load_demo_batches_df(files), calls |-> <<>>]
    ELSE [df |-> NoMatchDF, calls |-> <<>>]
  ELSE IF DatabricksConnector = None
  THEN [df |-> ErrorDF("Databricks connector not available."), calls |-> <<>>]
  ELSE [df |-> IF outcome.raised THEN ErrorDF("connector error")
               ELSE QueryDF(outcome.rows),
        calls |-> <<[config |-> cfg.databricks, sql |-> sql_text]>>]

\* ------------------------------------------------------------ the session
\* the Databricks block of the Configuration Cockpit (app.py:360-365)
EmptyDb == [host |-> "", http_path |-> "", token |-> "", warehouse_id |-> ""]
FilledDb == [host |-> "https://adb.example.net", http_path |-> "/sql/1.0/endpoints/e1",
             token |-> "pat", warehouse_id |-> "c1"]
DbConfigs == {EmptyDb, FilledDb}

Message(role, text, meta) == [role |-> role, text |-> text, meta |-> meta]
NoMeta == [sql_preview |-> <<>>, rationale |-> "", executed |-> FALSE]
PreviewMeta(sql, rationale) ==
  [sql_preview |-> sql, rationale |-> rationale, executed |-> FALSE]
ExecutedMeta == [sql_preview |-> <<>>, rationale |-> "", executed |-> TRUE]

append_message(msgs, role, text, meta) == Append(msgs, Message(role, text, meta))

\* the widgets a script run renders
EmptyScreen ==
  [previews |-> {}, expert |-> FALSE, tabs |-> <<>>, pin |-> FALSE,
   export |-> FALSE, input |-> FALSE, settings |-> FALSE, footer |-> FALSE]

\* a user interaction: the widget used and what was entered, with what the
\* script run it triggers finds outside the session (the files of DEMO_DIR,
\* the minute on the clock, what a call into an imported class does)
NoOutcome == [raised |-> FALSE, rows |-> 0]
Event(kind) ==
  [kind |-> kind, key |-> <<>>, prompt |-> <<>>, tab |-> "", db |-> EmptyDb,
   minute |-> 0, files |-> NoDemoFiles, outcome |-> NoOutcome]
NoEvent == Event("none")

\* the session state and the world, as one script run sees and changes them
Session ==
  [messages |-> messages, generated_sql |-> generated_sql,
   sql_rationale |-> sql_rationale, last_result |-> last_result,
   pinned |-> pinned, demo_mode |-> demo_mode, expert_mode |-> expert_mode,
   config |-> config, open_settings |-> open_settings,
   demo_step_index |-> demo_step_index, view |-> view, fs |-> fs,
   calls |-> connector_calls, now |-> now,
   prev |-> screen, scr |-> EmptyScreen, download |-> [file_name |-> "", deck |-> <<>>], notices |-> {},
   halt |-> "run"]

\* ------------------------------------------------ header (app.py:275-286)
Header(R, ev) ==
  [R EXCEPT
     !.demo_mode = IF ev.kind = "toggle_demo" THEN ~@ ELSE @,
     !.expert_mode = IF ev.kind = "toggle_expert" THEN ~@ ELSE @,
     !.open_settings = IF ev.kind = "settings" THEN TRUE ELSE @]

\* ------------------------------------------------------- render_messages
ExecutedText(df) == <<"Executed SQL and produced", ToString(df.rows), "rows.">>

\* the body of the Approve & Execute / Execute (non-expert) button
ExecuteClicked(R, sql, ev) ==
  LET x == execute_sql(sql, R.demo_mode, R.config, ev.files, ev.outcome) IN
  [R EXCEPT
     !.last_result = x.df,
     !.calls = @ \o x.calls,
     !.notices = IF x.df.kind = "error"
                 THEN @ \cup {"Real execution failed"} ELSE @,
     !.messages = append_message(@, "assistant", ExecutedText(x.df), ExecutedMeta)]

\* Refine SQL also runs the refined text
RefineClicked_executes(R, sql) ==
  [R EXCEPT
     !.generated_sql = sql \o <<"--", "refined">>,
     !.sql_rationale = "Refined by user.",
     !.last_result = execute_sql(sql \o <<"--", "refined">>, R.demo_mode,
                                 R.config, NoDemoFiles, NoOutcome).df,
     !.messages = append_message(@, "assistant",
                    <<"SQL refined. Review and approve to run.">>,
                    PreviewMeta(sql \o <<"--", "refined">>, "Refined by user."))]

\* the body of the Refine SQL button
RefineClicked(R, sql) ==
  LET new_sql == sql \o <<"--", "refined">> IN
  [R EXCEPT
     !.generated_sql = new_sql,
     !.sql_rationale = "Refined by user.",
     !.messages = append_message(@, "assistant",
                    <<"SQL refined. Review and approve to run.">>,
                    PreviewMeta(new_sql, "Refined by user."))]

(* The loop `for m in st.session_state.messages`: a message appended by a  *)
(* button body is reached by the same loop. The buttons of a preview are   *)
(* keyed by hash(sql_preview); Streamlit raises DuplicateWidgetID, ending  *)
(* the script run, at the second widget of one key.                        *)
RECURSIVE RenderLoop(_, _, _, _)
RenderLoop(i, keys, R, ev) ==
  IF i > Len(R.messages) THEN R
  ELSE
    LET m == R.messages[i]
        sql == m.meta.sql_preview
    IN
    IF m.role = "assistant" /\ sql # <<>> THEN
      IF sql \in keys
      THEN [R EXCEPT !.halt = "error",
                     !.notices = @ \cup {"DuplicateWidgetID"}]
      ELSE
        LET shown == [R EXCEPT !.scr.previews = @ \cup {sql}]
            after ==
              IF ev.kind = "execute" /\ ev.key = sql
              THEN ExecuteClicked(shown, sql, ev)
              ELSE IF ev.kind = "refine" /\ ev.key = sql /\ R.expert_mode
              THEN RefineClicked(shown, sql)
              ELSE shown
        IN RenderLoop(i + 1, keys \cup {sql}, after, ev)
    ELSE RenderLoop(i + 1, keys, R, ev)

render_messages(R, ev) ==
  IF R.halt # "run" THEN R
  ELSE RenderLoop(1, {}, [R EXCEPT !.scr.expert = R.expert_mode], ev)

\* ---------------------------------------------------------- render_canvas
Tabs(R) ==
  (IF R.last_result # NoneDF
   THEN <<"Table">> \o (IF HasNumeric(R.last_result) THEN <<"Chart">> ELSE <<>>)
        \o <<"Insights">>
   ELSE <<>>)
  \o (IF R.pinned # <<>> THEN <<"Pinned">> ELSE <<>>)

\* time.strftime('%Y-%m-%d %H:%M'): the clock to the minute
PinTitle(minute) == "Pinned at " \o ToString(minute)

\* the pinned list holding only the newest pin
PinResult_replace(pins, title, df) == <<[title |-> title, df |-> df]>>

\* st.session_state.pinned.append({...})
PinResult(pins, title, df) == Append(pins, [title |-> title, df |-> df])

Min(a, b) == IF a <= b THEN a ELSE b

HeadRows == 10

\* the deck app.py asks the exporter for: add_title_slide, then
\* add_table_slide(title, df.head(10)) per pinned entry, in list order
ExportDeck(pins) ==
  <<[layout |-> "title", title |-> "DataWeave AI - Pinned Insights",
     df |-> NoneDF]>>
  \o [i \in 1..Len(pins) |->
        [layout |-> "table", title |-> pins[i].title,
         df |-> [pins[i].df EXCEPT !.rows = Min(@, HeadRows)]]]

NoDownload == [file_name |-> "", deck |-> <<>>]

\* the body of the Export pinned to PPT (demo) button
ExportClicked(R) ==
  IF BoardExporter = None
  THEN [R EXCEPT !.notices = @ \cup {"Export module not available."}]
  ELSE [R EXCEPT !.download = [file_name |-> "dataweave_pinned.pptx",
                               deck |-> ExportDeck(R.pinned)]]

render_canvas(R, ev) ==
  IF R.halt # "run" THEN R
  ELSE IF R.last_result = NoneDF /\ R.pinned = <<>> THEN R
  ELSE
    LET tabs == Tabs(R)
        \* the radio keeps its value while its options are the same widget
        selected == IF tabs = R.prev.tabs
                    THEN (IF ev.kind = "view" THEN ev.tab ELSE R.view)
                    ELSE tabs[1]
        R1 == [R EXCEPT !.view = selected, !.scr.tabs = tabs,
                        !.scr.pin = (selected = "Table")]
        R2 == IF selected = "Table" /\ ev.kind = "pin"
              THEN [R1 EXCEPT
                      !.pinned = PinResult(@, PinTitle(ev.minute), R.last_result),
                      !.now = ev.minute,
                      !.notices = @ \cup {"Pinned."}]
              ELSE R1
        R3 == [R2 EXCEPT !.scr.export = (R2.pinned # <<>>)]
    IN IF R3.pinned # <<>> /\ ev.kind = "export" THEN ExportClicked(R3) ELSE R3

\* ------------------------------------------------ input area (app.py:301-352)
RealPlaceholder(prompt) ==
  <<"--", "REAL", "MODE:", "SQL", "generated", "for", "prompt:">>
  \o Prefix(prompt, PromptCut)

\* `from modules.neo4j_sync import Neo4jSync`
Neo4jSyncModule ==
  {"extract_schema_from_databricks", "sync_schema_to_neo4j",
   "save_schema_to_file", "load_schema_from_file", "GraphDatabase",
   "NEO4J_AVAILABLE", "databricks_connector", "DBX_AVAILABLE",
   "Dict", "Any", "json", "os"}
Neo4jSync == FromImport(Neo4jSyncModule, "Neo4jSync")

\* the body of the Send button
SendClicked(R, prompt, raised) ==
  IF Chars(strip(prompt)) = <<>>
  THEN [R EXCEPT !.notices = @ \cup {"Please type a prompt."}]
  ELSE
    LET with_user == append_message(R.messages, "user", prompt, NoMeta) IN
    IF R.demo_mode THEN
      LET g == demo_generate_sql(prompt) IN
      [R EXCEPT
         !.generated_sql = g.sql,
         !.sql_rationale = g.rationale,
         !.messages = append_message(with_user, "assistant",
                        <<"Generated SQL preview (demo).">>,
                        PreviewMeta(g.sql, g.rationale))]
    ELSE IF Neo4jSync # None /\ raised
    THEN \* Neo4jSync(...).get_tables_and_columns() raised
         [R EXCEPT !.messages = append_message(with_user, "assistant",
                                  <<"Error generating SQL">>, NoMeta)]
    ELSE
      LET rationale == "Real generator placeholder; integrate LLM/LLM-client here." IN
      [R EXCEPT
         !.generated_sql = RealPlaceholder(prompt),
         !.sql_rationale = rationale,
         !.messages = append_message(with_user, "assistant",
                        <<"Generated SQL preview (real-mode placeholder).">>,
                        PreviewMeta(RealPlaceholder(prompt), rationale))]

steps ==
  << <<"Show", "top", "5", "vendors", "in", "US", "by", "on-time", "delivery", "rate">>,
     <<"Break", "this", "down", "by", "product", "category">>,
     <<"Trace", "batch", "B2025001", "from", "vendor", "to", "distribution",
       "center", "to", "hospital">>,
     <<"Upload", "SLA", "and", "ask:", "What", "does", "OTIF", "mean?">> >>

\* the body of the Run Demo Script Step button
DemoStepClicked(R) ==
  LET idx == R.demo_step_index IN
  IF idx >= Len(steps)
  THEN [R EXCEPT !.notices = @ \cup {"Demo finished."}, !.demo_step_index = 0]
  ELSE
    LET step_prompt == steps[idx + 1]
        g == demo_generate_sql(step_prompt)
    IN [R EXCEPT
          !.demo_step_index = idx + 1,
          !.messages = append_message(
                         append_message(@, "user", step_prompt, NoMeta),
                         "assistant", <<"Generated SQL preview (demo).">>,
                         PreviewMeta(g.sql, g.rationale)),
          \* st.experimental_rerun()
          !.halt = "rerun"]

input_area(R, ev) ==
  IF R.halt # "run" THEN R
  ELSE
    LET R1 == [R EXCEPT !.scr.input = TRUE] IN
    IF ev.kind = "send" THEN SendClicked(R1, ev.prompt, ev.outcome.raised)
    ELSE IF ev.kind = "demo_step" THEN DemoStepClicked(R1)
    ELSE R1

\* ------------------------------- Configuration Cockpit (app.py:357-401)
save_config_to_file(R) ==
  [R EXCEPT !.fs.settings = R.config,
            !.notices = @ \cup {"Configuration saved"}]

settings_panel(R, ev) ==
  IF R.halt # "run" \/ ~R.open_settings THEN R
  ELSE
    LET R1 == [R EXCEPT
                 !.scr.settings = TRUE,
                 !.config.databricks = IF ev.kind = "edit_db" THEN ev.db ELSE @]
    IN IF ev.kind = "save_config" THEN save_config_to_file(R1)
       ELSE IF ev.kind = "close_settings" THEN [R1 EXCEPT !.open_settings = FALSE]
       ELSE R1

\* ------------------------------------------------- footer (app.py:406-416)
footer(R, ev) ==
  IF R.halt # "run" THEN R
  ELSE [R EXCEPT
          !.scr.footer = TRUE,
          !.download = IF ev.kind = "download_script"
                       THEN [file_name |-> "demo_script_dataweave.md", deck |-> <<>>]
                       ELSE @]

\* ---------------------------------------------------------- one script run
Script(R, ev) ==
  footer(settings_panel(input_area(render_canvas(render_messages(
    Header(R, ev), ev), ev), ev), ev), ev)

\* a run ended by st.experimental_rerun() is followed at once by a fresh run
RECURSIVE RunScript(_, _)
RunScript(R, ev) ==
  LET first == Script(R, ev) IN
  IF first.halt = "rerun"
  THEN RunScript([first EXCEPT !.prev = first.scr, !.scr = EmptyScreen,
                               !.halt = "run", !.download = NoDownload,
                               !.notices = {}], NoEvent)
  ELSE first

\* ------------------------------------------------------------------ Init
\* config/settings.json, as far as the session reads it again: the Databricks
\* block (absent file: an empty config)
SettingsFiles == [databricks : DbConfigs]

FileSystems == [settings : SettingsFiles]

\* cfg.get("app_mode", "DEMO").upper() == "DEMO"
AppModes == {"DEMO", "demo", "REAL"}
IsDemo(app_mode) == lower(Spell(app_mode)) = <<"d", "e", "m", "o">>

GenIdle == g_prompt = <<>> /\ g_result = PairDefault

NoRunState == [life_cycle_state |-> "", result_state |-> ""]
NoJobsResult == [kind |-> "none", ok |-> FALSE, value |-> ""]
NoResult == [kind |-> "none", exc |-> ""]

EmptyGraph == [nodes |-> {}, rels |-> {}]
NoNeoConfig == [neo4j_uri |-> "", neo4j_user |-> "", neo4j_pass |-> ""]

NeoIdle ==
  /\ n_available = FALSE
  /\ n_config = NoNeoConfig
  /\ n_schema = <<>>
  /\ n_pc = [at |-> "idle", next |-> 0]
  /\ n_graph = EmptyGraph
  /\ n_start = EmptyGraph
  /\ n_issued = <<>>
  /\ n_returns = <<>>

NoVecConfig == [given |-> FALSE, provider |-> ""]

VecIdle ==
  /\ v_files = <<>>
  /\ v_config = NoVecConfig
  /\ v_chromadb = FALSE
  /\ v_dir = {}
  /\ v_pc = "idle"
  /\ v_stored = <<>>
  /\ v_embs = <<>>

LibIdle == NeoIdle /\ VecIdle

ConnIdle ==
  /\ c_config = [db_host |-> "", db_http_path |-> "", db_token |-> "",
                 db_cluster_id |-> ""]
  /\ c_has_dbsql = FALSE
  /\ c_pc = "idle"
  /\ c_requests = <<>>
  /\ c_clock = 0
  /\ c_start = 0
  /\ c_run = NoRunState
  /\ c_dirs = 0
  /\ c_jobs = NoJobsResult
  /\ c_result = NoResult

\* the session bootstrap (app.py:49-74) and the first script run
AppInit ==
  /\ fs \in FileSystems
  /\ messages = <<>>
  /\ generated_sql = <<>>
  /\ sql_rationale = ""
  /\ last_result = NoneDF
  /\ pinned = <<>>
  /\ \E app_mode \in AppModes : demo_mode = IsDemo(app_mode)
  /\ expert_mode = FALSE
  /\ config = fs.settings
  /\ open_settings = FALSE
  /\ demo_step_index = 0
  /\ view = ""
  /\ screen = [EmptyScreen EXCEPT !.input = TRUE, !.footer = TRUE]
  /\ now = 0
  /\ connector_calls = <<>>
  /\ download = NoDownload
  /\ notices = {}

Init == AppInit /\ GenIdle /\ ConnIdle /\ LibIdle

\* -------------------------------------------------------------- actions
\* the interaction ev and the script run it triggers
Interact(ev) ==
  \E R \in {RunScript(Session, ev)} :
  /\ messages' = R.messages
  /\ generated_sql' = R.generated_sql
  /\ sql_rationale' = R.sql_rationale
  /\ last_result' = R.last_result
  /\ pinned' = R.pinned
  /\ demo_mode' = R.demo_mode
  /\ expert_mode' = R.expert_mode
  /\ config' = R.config
  /\ open_settings' = R.open_settings
  /\ demo_step_index' = R.demo_step_index
  /\ view' = IF R.scr.tabs = <<>> THEN "" ELSE R.view
  /\ screen' = R.scr
  /\ fs' = R.fs
  /\ connector_calls' = R.calls
  /\ download' = R.download
  /\ notices' = R.notices
  /\ now' = R.now
  /\ UNCHANGED <<gen_vars, conn_vars, lib_vars>>

UserPrompts ==
  { <<"", "">>, <<"top", "vendors">>, <<"Trace", "batch", "B2025001">>,
    <<"Break", "this", "down">> }

\* what a call into an imported class can do: nothing when the name is None
OutcomesOf(cls) == IF cls = None THEN {NoOutcome} ELSE ConnectorOutcomes

ToggleDemo == Interact(Event("toggle_demo"))

ToggleExpert == Interact(Event("toggle_expert"))

ClickSettings == Interact(Event("settings"))

ClickExecute ==
  \E key \in screen.previews, files \in DemoDirs,
     o \in OutcomesOf(DatabricksConnector) :
    /\ Len(messages) < MaxMessages
    /\ Interact([Event("execute") EXCEPT !.key = key, !.files = files,
                                         !.outcome = o])

ClickRefine ==
  \E key \in screen.previews :
    /\ screen.expert
    /\ Len(messages) < MaxMessages
    /\ Interact([Event("refine") EXCEPT !.key = key])

SelectView ==
  \E i \in 1..Len(screen.tabs) :
    /\ screen.tabs[i] # view
    /\ Interact([Event("view") EXCEPT !.tab = screen.tabs[i]])

\* time.strftime('%Y-%m-%d %H:%M'): a pin falls in the minute of the pin
\* before it or in a later one
Minutes == {0, 1}

\* the clock is read by Pin alone: the minutes that passed since it was last
\* read are drawn when it is read
ClickPin ==
  \E minute \in {m \in Minutes : m >= now} :
    /\ screen.pin
    /\ Len(pinned) < MaxPinned
    /\ Interact([Event("pin") EXCEPT !.minute = minute])

ClickExport ==
  /\ screen.export
  /\ Interact(Event("export"))

ClickSend ==
  \E prompt \in UserPrompts, o \in OutcomesOf(Neo4jSync) :
    /\ screen.input
    /\ Len(messages) + 2 <= MaxMessages
    /\ Interact([Event("send") EXCEPT !.prompt = prompt, !.outcome = o])

ClickDemoStep ==
  /\ screen.input
  /\ demo_step_index >= Len(steps) \/ Len(messages) + 2 <= MaxMessages
  /\ Interact(Event("demo_step"))

EditDatabricks ==
  \E db \in DbConfigs :
    /\ screen.settings
    /\ db # config.databricks
    /\ Interact([Event("edit_db") EXCEPT !.db = db])

ClickSaveConfig ==
  /\ screen.settings
  /\ Interact(Event("save_config"))

ClickCloseSettings ==
  /\ screen.settings
  /\ Interact(Event("close_settings"))

ClickDownloadScript ==
  /\ screen.footer
  /\ Interact(Event("download_script"))

Next ==
  \/ ToggleDemo
  \/ ToggleExpert
  \/ ClickSettings
  \/ ClickExecute
  \/ ClickRefine
  \/ SelectView
  \/ ClickPin
  \/ ClickExport
  \/ ClickSend
  \/ ClickDemoStep
  \/ EditDatabricks
  \/ ClickSaveConfig
  \/ ClickCloseSettings
  \/ ClickDownloadScript

Spec == Init /\ [][Next]_vars

\* ------------------------------------------------------------- GenSpec
GenWords == {"Top", "VENDOR", "vendors", "lowest", "low", "slow", "stop",
             "trace", "batch", "category"}

RECURSIVE Texts(_, _)
Texts(words, n) ==
  IF n = 0 THEN {<<>>}
  ELSE LET shorter == Texts(words, n - 1) IN
       shorter \cup {Append(t, w) : t \in {s \in shorter : Len(s) = n - 1}, w \in words}

GenPrompts == Texts(GenWords, MaxPromptWords)

\* a fresh session in demo mode, left alone
AppIdle == AppInit /\ fs = [settings |-> [databricks |-> EmptyDb]] /\ demo_mode

GenInit ==
  /\ AppIdle
  /\ ConnIdle
  /\ LibIdle
  /\ g_prompt \in GenPrompts
  /\ g_result = [sql |-> <<>>, rationale |-> ""]

Generate ==
  /\ g_result = [sql |-> <<>>, rationale |-> ""]
  /\ g_result' = demo_generate_sql(g_prompt)
  /\ UNCHANGED <<g_prompt, app_vars, conn_vars, lib_vars>>

GenNext == Generate

GenSpec == GenInit /\ [][GenNext]_vars

\* ------------------------------------------------------------- ConnSpec
(* modules/databricks_connector.py: one call run_sql(query, config), one    *)
(* action per request. c_requests lists the requests made, a request        *)
(* repeated at once with the same outcome (the polls of a running job)      *)
(* listed once.                                                             *)
Timeout == 300
PollInterval == 3

\* seconds on the clock beyond which the model follows no call
ClockCap == Timeout + PollInterval + MaxLatency + 1

ConnConfigs ==
  [db_host : {"", "https://adb.example.net"}, db_http_path : {"", "/sql/1.0/endpoints/e1"},
   db_token : {"", "pat"}, db_cluster_id : {"", "c1"}]

Request(step, ok) == [step |-> step, ok |-> ok]
Log(reqs, r) == IF reqs # <<>> /\ reqs[Len(reqs)] = r THEN reqs ELSE Append(reqs, r)

Returned(ok, value) == [kind |-> "returned", ok |-> ok, value |-> value]
Raised(exc) == [kind |-> "raised", ok |-> FALSE, value |-> exc]

\* `if http_path and HAS_DBSQL`
UsesSqlConnector(cfg, has_dbsql) == cfg.db_http_path # "" /\ has_dbsql

\* only the host is required
MissingJobsConfig_host_only(cfg) == cfg.db_host = ""

\* `if not host or not token or not cluster_id`
MissingJobsConfig(cfg) ==
  cfg.db_host = "" \/ cfg.db_token = "" \/ cfg.db_cluster_id = ""

\* what run_sql does with what run_sql_via_jobs_api ended with (lines 88-98)
RunSqlResult(jobs) ==
  IF jobs.kind = "raised" THEN [kind |-> "raised", exc |-> jobs.value]
  ELSE IF ~jobs.ok THEN [kind |-> "raised", exc |-> "RuntimeError"]
  ELSE [kind |-> "DataFrame", exc |-> ""]

\* run_sql_via_jobs_api ends, and run_sql with it
Finish(jobs) ==
  /\ c_jobs' = jobs
  /\ c_result' = RunSqlResult(jobs)
  /\ c_pc' = "done"

\* the loop never gives up
TimedOut_never(clock, start) == FALSE

\* `time.time() - start_ts > timeout`
TimedOut(clock, start) == clock - start > Timeout

LifeCycleStates == {"", "RUNNING", "TERMINATED", "SKIPPED", "INTERNAL_ERROR"}
ResultStates == {"", "SUCCESS", "FAILED"}
RunStates == [life_cycle_state : LifeCycleStates, result_state : ResultStates]

\* `life in ('TERMINATED', 'SKIPPED', 'INTERNAL_ERROR') or result_state`
RunEnded(run) ==
  \/ run.life_cycle_state \in {"TERMINATED", "SKIPPED", "INTERNAL_ERROR"}
  \/ run.result_state # ""

\* the final state is not looked at
RunSucceeded_unchecked(run) == TRUE

\* `fj.get('state', {}).get('result_state') != 'SUCCESS'`, negated
RunSucceeded(run) == run.result_state = "SUCCESS"

ConnInit ==
  /\ AppIdle
  /\ GenIdle
  /\ LibIdle
  /\ c_config \in ConnConfigs
  /\ c_has_dbsql \in BOOLEAN
  /\ c_pc = "start"
  /\ c_requests = <<>>
  /\ c_clock = 0
  /\ c_start = 0
  /\ c_run = NoRunState
  /\ c_dirs = 0
  /\ c_jobs = NoJobsResult
  /\ c_result = NoResult

\* run_sql, lines 70-88: the path is chosen
RunSqlBegin ==
  /\ c_pc = "start"
  /\ IF UsesSqlConnector(c_config, c_has_dbsql)
     THEN c_pc' = "sql_connector" /\ UNCHANGED <<c_jobs, c_result>>
     ELSE IF MissingJobsConfig(c_config)
     THEN /\ c_pc' = "done"
          /\ c_result' = [kind |-> "raised", exc |-> "RuntimeError"]
          /\ UNCHANGED c_jobs
     ELSE c_pc' = "upload" /\ UNCHANGED <<c_jobs, c_result>>
  /\ UNCHANGED <<c_config, c_has_dbsql, c_requests, c_clock, c_start, c_run,
                 c_dirs, app_vars, gen_vars,
                 lib_vars>>

\* run_sql, lines 77-82: dbsql.connect and pd.read_sql
SqlConnectorQuery ==
  /\ c_pc = "sql_connector"
  /\ \E ok \in BOOLEAN :
       /\ c_requests' = Log(c_requests, Request("sql_connector", ok))
       /\ c_result' = IF ok THEN [kind |-> "DataFrame", exc |-> ""]
                     ELSE [kind |-> "raised", exc |-> "RuntimeError"]
  /\ c_pc' = "done"
  /\ UNCHANGED <<c_config, c_has_dbsql, c_clock, c_start, c_run, c_dirs,
                 c_jobs, app_vars, gen_vars,
                 lib_vars>>

\* lines 130-134: POST /api/2.0/dbfs/put
UploadScript ==
  /\ c_pc = "upload"
  /\ \E ok \in BOOLEAN :
       /\ c_requests' = Log(c_requests, Request("upload", ok))
       /\ IF ok THEN c_pc' = "submit" /\ UNCHANGED <<c_jobs, c_result>>
          ELSE Finish(Returned(FALSE, "Failed to upload task to DBFS"))
  /\ UNCHANGED <<c_config, c_has_dbsql, c_clock, c_start, c_run, c_dirs,
                 app_vars, gen_vars,
                 lib_vars>>

\* lines 144-154: POST /api/2.1/jobs/runs/submit, then start_ts = time.time()
SubmitRun ==
  /\ c_pc = "submit"
  /\ \E outcome \in {"run_id", "no run_id", "failed"} :
       /\ c_requests' = Log(c_requests, Request("submit", outcome # "failed"))
       /\ IF outcome = "run_id"
          THEN /\ c_pc' = "poll"
               /\ c_start' = c_clock
               /\ UNCHANGED <<c_jobs, c_result>>
          ELSE /\ Finish(Returned(FALSE, IF outcome = "failed"
                                         THEN "Failed to submit run"
                                         ELSE "No run_id returned"))
               /\ UNCHANGED c_start
  /\ UNCHANGED <<c_config, c_has_dbsql, c_clock, c_run, c_dirs, app_vars,
                 gen_vars, lib_vars>>

\* lines 155-168: the top of the poll loop, and the status request
PollStatus ==
  /\ c_pc = "poll"
  /\ IF TimedOut(c_clock, c_start)
     THEN /\ Finish(Returned(FALSE, "Timed out waiting for job completion"))
          /\ UNCHANGED <<c_requests, c_clock, c_run>>
     ELSE \E ok \in BOOLEAN, run \in RunStates, latency \in 0..MaxLatency :
            /\ c_requests' = Log(c_requests, Request("status", ok))
            /\ c_clock' = c_clock + latency
            /\ IF ~ok
               THEN /\ Finish(Returned(FALSE, "Error polling run status"))
                    /\ UNCHANGED c_run
               ELSE /\ c_run' = run
                    /\ c_pc' = IF RunEnded(run) THEN "final" ELSE "sleep"
                    /\ UNCHANGED <<c_jobs, c_result>>
  /\ UNCHANGED <<c_config, c_has_dbsql, c_start, c_dirs, app_vars, gen_vars,
                 lib_vars>>

\* line 169: time.sleep(poll_interval)
Sleep ==
  /\ c_pc = "sleep"
  /\ c_clock <= ClockCap
  /\ c_clock' = c_clock + PollInterval
  /\ c_pc' = "poll"
  /\ UNCHANGED <<c_config, c_has_dbsql, c_requests, c_start, c_run, c_dirs,
                 c_jobs, c_result, app_vars, gen_vars,
                 lib_vars>>

\* lines 171-176: the status request after the loop, outside any try
FinalStatus ==
  /\ c_pc = "final"
  /\ \E ok \in BOOLEAN, run \in {r \in RunStates : RunEnded(r)} :
       /\ c_requests' = Log(c_requests, Request("status", ok))
       /\ IF ~ok
          THEN Finish(Raised("HTTPError")) /\ UNCHANGED c_run
          ELSE /\ c_run' = run
               /\ IF RunSucceeded(run)
                  THEN c_pc' = "list" /\ UNCHANGED <<c_jobs, c_result>>
                  ELSE Finish(Returned(FALSE, "state"))
  /\ UNCHANGED <<c_config, c_has_dbsql, c_clock, c_start, c_dirs, app_vars,
                 gen_vars, lib_vars>>

\* lines 179-184: GET /api/2.0/dbfs/list?path=/tmp
ListOutput ==
  /\ c_pc = "list"
  /\ \E ok \in BOOLEAN, dirs \in 0..MaxDirs :
       /\ c_requests' = Log(c_requests, Request("list", ok))
       /\ IF ~ok
          THEN Finish(Returned(FALSE, "Failed to fetch result CSV")) /\ UNCHANGED c_dirs
          ELSE IF dirs = 0
          THEN Finish(Returned(FALSE, "Result CSV not found")) /\ UNCHANGED c_dirs
          ELSE c_pc' = "inner" /\ c_dirs' = dirs /\ UNCHANGED <<c_jobs, c_result>>
  /\ UNCHANGED <<c_config, c_has_dbsql, c_clock, c_start, c_run, app_vars,
                 gen_vars, lib_vars>>

\* lines 185-198: GET /api/2.0/dbfs/list?path=<a /tmp/streamlit_poc_ entry>
ListInner ==
  /\ c_pc = "inner"
  /\ \E outcome \in {"failed", "csv", "no csv"} :
       /\ c_requests' = Log(c_requests, Request("list", outcome # "failed"))
       /\ IF outcome = "failed"
          THEN Finish(Returned(FALSE, "Failed to fetch result CSV")) /\ UNCHANGED c_dirs
          ELSE IF outcome = "csv"
          THEN c_pc' = "read" /\ UNCHANGED <<c_dirs, c_jobs, c_result>>
          ELSE IF c_dirs = 1
          THEN Finish(Returned(FALSE, "Result CSV not found")) /\ c_dirs' = 0
          ELSE c_dirs' = c_dirs - 1 /\ UNCHANGED <<c_pc, c_jobs, c_result>>
  /\ UNCHANGED <<c_config, c_has_dbsql, c_clock, c_start, c_run, app_vars,
                 gen_vars, lib_vars>>

\* lines 200-209: GET /api/2.0/dbfs/read, base64 and pd.read_csv
ReadResult ==
  /\ c_pc = "read"
  /\ \E ok \in BOOLEAN :
       /\ c_requests' = Log(c_requests, Request("read", ok))
       /\ IF ok
          THEN Finish(Returned(TRUE, "DataFrame"))
          ELSE Finish(Returned(FALSE, "Failed to fetch result CSV"))
  /\ UNCHANGED <<c_config, c_has_dbsql, c_clock, c_start, c_run, c_dirs,
                 app_vars, gen_vars,
                 lib_vars>>

ConnNext ==
  \/ RunSqlBegin
  \/ SqlConnectorQuery
  \/ UploadScript
  \/ SubmitRun
  \/ PollStatus
  \/ Sleep
  \/ FinalStatus
  \/ ListOutput
  \/ ListInner
  \/ ReadResult

ConnSpec == ConnInit /\ [][ConnNext]_vars

\* a call that has begun keeps running: no step of it waits on anything but
\* its own request returning
ConnLive == ConnSpec /\ WF_vars(ConnNext)

\* -------------------------------------------------------------- NeoSpec
(* modules/neo4j_sync.py: calls sync_schema_to_neo4j(schema_obj, config),   *)
(* one action per statement sent with session.run. A name is the sequence   *)
(* of the pieces of its text, "." a piece of its own; a node is an id with  *)
(* a label and a name, a relationship a type with the ids of its two ends.  *)
MaxCalls == 2

\* str.split('.')
RECURSIVE SplitDots(_, _, _)
SplitDots(text, part, parts) ==
  IF text = <<>> THEN Append(parts, part)
  ELSE IF Head(text) = "." THEN SplitDots(Tail(text), <<>>, Append(parts, part))
  ELSE SplitDots(Tail(text), Append(part, Head(text)), parts)

split(qualified) == SplitDots(qualified, <<>>, <<>>)

\* lines 128-137: catalog, schema and table of a qualified name
NameParts(qualified) ==
  LET parts == split(qualified) IN
  IF Len(parts) = 3
  THEN [catalog |-> parts[1], schema |-> parts[2], table |-> parts[3]]
  ELSE IF Len(parts) = 2
  THEN [catalog |-> <<"default">>, schema |-> parts[1], table |-> parts[2]]
  ELSE [catalog |-> <<"default">>, schema |-> <<"default">>, table |-> qualified]

NoEnd == [label |-> "", name |-> <<>>]
MergeNodeStmt(label, name) ==
  [kind |-> "node", label |-> label, name |-> name, type |-> "", to |-> NoEnd]
MergeRelStmt(type, from, to) ==
  [kind |-> "rel", label |-> from.label, name |-> from.name, type |-> type,
   to |-> to]
End(label, name) == [label |-> label, name |-> name]

\* lines 147-149: the two statements of each column
RECURSIVE ColumnStatements(_, _)
ColumnStatements(table, cols) ==
  IF cols = <<>> THEN <<>>
  ELSE <<MergeNodeStmt("Column", Head(cols)),
         MergeRelStmt("HAS_COLUMN", End("Table", table), End("Column", Head(cols)))>>
       \o ColumnStatements(table, Tail(cols))

\* lines 140-149: the statements of one entry of the schema object
TableStatements(entry) ==
  LET n == NameParts(entry.qualified) IN
  <<MergeNodeStmt("Catalog", n.catalog),
    MergeNodeStmt("Schema", n.schema),
    MergeNodeStmt("Table", n.table),
    MergeRelStmt("HAS_SCHEMA", End("Catalog", n.catalog), End("Schema", n.schema)),
    MergeRelStmt("HAS_TABLE", End("Schema", n.schema), End("Table", n.table))>>
  \o ColumnStatements(n.table, entry.cols)

\* line 126: the statements of the call, in the order of schema_obj.items()
RECURSIVE Statements(_)
Statements(schema) ==
  IF schema = <<>> THEN <<>>
  ELSE TableStatements(Head(schema)) \o Statements(Tail(schema))

Matching(graph, end) ==
  {v \in graph.nodes : v.label = end.label /\ v.name = end.name}

\* a node is created whether or not one is there
MergeNode_create(graph, label, name) ==
  [graph EXCEPT !.nodes = @ \cup {[id |-> Cardinality(graph.nodes) + 1,
                                   label |-> label, name |-> name]}]

\* MERGE (x:Label {name:$name}): a node is created when none matches
MergeNode(graph, label, name) ==
  IF Matching(graph, End(label, name)) # {} THEN graph
  ELSE [graph EXCEPT !.nodes = @ \cup {[id |-> Cardinality(graph.nodes) + 1,
                                        label |-> label, name |-> name]}]

\* MATCH (a ...), (b ...) MERGE (a)-[:TYPE]->(b): for every matched pair the
\* relationship is created when it is not there
MergeRel(graph, type, from, to) ==
  [graph EXCEPT !.rels = @ \cup
     {[type |-> type, from |-> a.id, to |-> b.id] :
        a \in Matching(graph, from), b \in Matching(graph, to)}]

\* session.run(statement) that succeeds: the statement is committed on its own
RunStatement(graph, s) ==
  IF s.kind = "node" THEN MergeNode(graph, s.label, s.name)
  ELSE MergeRel(graph, s.type, End(s.label, s.name), s.to)

\* a failure undoes what the call has merged
AfterFailure_rollback(graph, start) == start

\* lines 151-153: the except clause prints and returns; what the earlier
\* statements committed stays
AfterFailure(graph, start) == graph

NeoConfigs ==
  {[neo4j_uri |-> "bolt://host:7687", neo4j_user |-> "neo4j", neo4j_pass |-> "secret"],
   [neo4j_uri |-> "", neo4j_user |-> "neo4j", neo4j_pass |-> "secret"],
   [neo4j_uri |-> "bolt://host:7687", neo4j_user |-> "", neo4j_pass |-> ""]}

Schemas ==
  {<<>>,
   <<[qualified |-> <<"orders">>, cols |-> << <<"order_id">> >>]>>,
   <<[qualified |-> <<"demo", ".", "sales", ".", "orders">>,
      cols |-> << <<"order_id">>, <<"material">> >>],
     [qualified |-> <<"procurement", ".", "purchases">>,
      cols |-> << <<"material">> >>]>>}

\* the graphs a call can find: an empty one, and one that holds two Table
\* nodes of one name and a Column
StartGraphs ==
  {EmptyGraph,
   [nodes |-> {[id |-> 1, label |-> "Table", name |-> <<"orders">>],
               [id |-> 2, label |-> "Table", name |-> <<"orders">>],
               [id |-> 3, label |-> "Column", name |-> <<"order_id">>]},
    rels |-> {[type |-> "HAS_COLUMN", from |-> 1, to |-> 3]}]}

NeoInit ==
  /\ AppIdle
  /\ GenIdle
  /\ ConnIdle
  /\ VecIdle
  /\ n_available \in BOOLEAN
  /\ n_config \in NeoConfigs
  /\ n_schema \in Schemas
  /\ n_pc = [at |-> "idle", next |-> 0]
  /\ n_graph \in StartGraphs
  /\ n_start = n_graph
  /\ n_issued = <<>>
  /\ n_returns = <<>>

NeoEnds(outcome) ==
  /\ n_pc' = [at |-> "done", next |-> 0]
  /\ n_returns' = Append(n_returns, outcome)

\* lines 114-125: a call begins: the driver and config tests, the driver and
\* the session
SyncBegin ==
  /\ n_pc.at \in {"idle", "done"}
  /\ Len(n_returns) < MaxCalls
  /\ n_start' = n_graph
  /\ n_issued' = <<>>
  /\ IF ~n_available
     THEN NeoEnds("RuntimeError")
     ELSE IF n_config.neo4j_uri = "" \/ n_config.neo4j_user = ""
     THEN NeoEnds("RuntimeError")
     ELSE \E connected \in {"driver raises", "session raises", "session"} :
            IF connected = "driver raises" THEN NeoEnds("ConfigurationError")
            ELSE IF connected = "session raises" THEN NeoEnds("False")
            ELSE IF Statements(n_schema) = <<>> THEN NeoEnds("True")
            ELSE /\ n_pc' = [at |-> "run", next |-> 1]
                 /\ UNCHANGED n_returns
  /\ UNCHANGED <<n_available, n_config, n_schema, n_graph, app_vars, gen_vars,
                 conn_vars, vec_vars>>

\* lines 140-153: the next session.run, and the return after the last
SyncStatement ==
  /\ n_pc.at = "run"
  /\ LET s == Statements(n_schema)[n_pc.next] IN
     /\ n_issued' = Append(n_issued, s)
     /\ \E ok \in BOOLEAN :
          IF ~ok
          THEN /\ n_graph' = AfterFailure(n_graph, n_start)
               /\ NeoEnds("False")
          ELSE /\ n_graph' = RunStatement(n_graph, s)
               /\ IF n_pc.next = Len(Statements(n_schema))
                  THEN NeoEnds("True")
                  ELSE /\ n_pc' = [at |-> "run", next |-> n_pc.next + 1]
                       /\ UNCHANGED n_returns
  /\ UNCHANGED <<n_available, n_config, n_schema, n_start, app_vars, gen_vars,
                 conn_vars, vec_vars>>

NeoNext ==
  \/ SyncBegin
  \/ SyncStatement

NeoSpec == NeoInit /\ [][NeoNext]_vars

\* -------------------------------------------------------------- VecSpec
(* modules/vector_engine.py: one call of store_documents_and_embeddings or  *)
(* of _local_embed_texts. A file is a name with its content, a content the  *)
(* sequence of its characters. The embeddings sent to Chroma do not show in *)
(* what store_documents_and_embeddings returns and are left out of it.      *)
MaxFiles == 2
DigestSize == 32
VectorCut == 128
ByteMax == 255
ContentCut == 4000

UploadedFile(name, content) == [name |-> name, content |-> content]
Uploads ==
  {UploadedFile("sla.txt", <<"a", "b">>), UploadedFile("sla.txt", <<"b">>),
   UploadedFile("otif.md", <<>>)}

RECURSIVE FileLists(_)
FileLists(n) ==
  IF n = 0 THEN {<<>>}
  ELSE FileLists(n - 1) \cup
       {Append(l, f) : l \in {k \in FileLists(n - 1) : Len(k) = n - 1}, f \in Uploads}

VecConfigs ==
  {NoVecConfig, [given |-> TRUE, provider |-> ""],
   [given |-> TRUE, provider |-> "DEMO"], [given |-> TRUE, provider |-> "Chroma"]}

\* (vec_config or {}).get("provider", "DEMO")
Provider(cfg) == IF ~cfg.given \/ cfg.provider = "" THEN "DEMO" ELSE cfg.provider

\* str(GROUNDING_DIR / filename)
Dest(filename) == <<"grounding_files", filename>>

\* open(dest, "wb").write(f.getbuffer()): the file of that name is replaced
WriteFile(dir, f) ==
  {g \in dir : g.name # f.name} \cup {UploadedFile(f.name, f.content)}

StoredEntry(f, provider) ==
  [name |-> f.name, path |-> Dest(f.name), provider |-> provider, error |-> ""]
ErrorEntry(e) == [name |-> "", path |-> <<>>, provider |-> "", error |-> e]

\* lines 78-92: the loop over the uploaded files
RECURSIVE SaveFiles(_, _, _, _)
SaveFiles(files, provider, dir, stored) ==
  IF files = <<>> THEN [dir |-> dir, stored |-> stored]
  ELSE SaveFiles(Tail(files), provider, WriteFile(dir, Head(files)),
                 Append(stored, StoredEntry(Head(files), provider)))

\* lines 64-118
store_documents_and_embeddings(files, cfg, chromadb, dir, chroma_ok) ==
  LET saved == SaveFiles(files, Provider(cfg), dir, <<>>) IN
  IF Provider(cfg) = "Chroma" /\ chromadb /\ ~chroma_ok
  THEN [saved EXCEPT !.stored = Append(@, ErrorEntry("chroma error"))]
  ELSE saved

\* str.encode(): the bytes of the characters
Ord == "a" :> 97 @@ "b" :> 98
RECURSIVE encode(_)
encode(text) ==
  IF text = <<>> THEN <<>> ELSE <<Ord[Head(text)]>> \o encode(Tail(text))

\* hashlib.sha256(...).digest(): DigestSize bytes that depend on the bytes
\* hashed alone. The mixing below stands for SHA-256, of which the length of
\* the digest and the range of its bytes are kept.
RECURSIVE Mix(_, _)
Mix(bytes, h) ==
  IF bytes = <<>> THEN h
  ELSE Mix(Tail(bytes), (h * 31 + Head(bytes) + 7) % 65536)

digest(bytes) ==
  [i \in 1..DigestSize |-> (Mix(bytes, 17) * i + i * i) % (ByteMax + 1)]

\* h[:128]
Slice(s, n) == SubSeq(s, 1, IF Len(s) < n THEN Len(s) ELSE n)

\* b / 255.0, kept as the fraction
Component(b) == [num |-> b, den |-> ByteMax]

\* lines 39-47
local_embed_texts(texts) ==
  [k \in 1..Len(texts) |->
     LET h == Slice(digest(encode(texts[k])), VectorCut) IN
     [i \in 1..Len(h) |-> Component(h[i])]]

\* content[:4000] of each file
Contents(files) == [k \in 1..Len(files) |-> Slice(files[k].content, ContentCut)]

VecInit ==
  /\ AppIdle
  /\ GenIdle
  /\ ConnIdle
  /\ NeoIdle
  /\ v_files \in FileLists(MaxFiles)
  /\ v_config \in VecConfigs
  /\ v_chromadb \in BOOLEAN
  /\ v_dir = {}
  /\ v_pc = "idle"
  /\ v_stored = <<>>
  /\ v_embs = <<>>

StoreDocuments ==
  /\ v_pc = "idle"
  /\ \E chroma_ok \in BOOLEAN :
       \E R \in {store_documents_and_embeddings(v_files, v_config, v_chromadb,
                                                v_dir, chroma_ok)} :
         /\ v_dir' = R.dir
         /\ v_stored' = R.stored
  /\ v_pc' = "stored"
  /\ UNCHANGED <<v_files, v_config, v_chromadb, v_embs, app_vars, gen_vars,
                 conn_vars, neo_vars>>

LocalEmbed ==
  /\ v_pc = "idle"
  /\ v_embs' = local_embed_texts(Contents(v_files))
  /\ v_pc' = "embedded"
  /\ UNCHANGED <<v_files, v_config, v_chromadb, v_dir, v_stored, app_vars,
                 gen_vars, conn_vars, neo_vars>>

VecNext ==
  \/ StoreDocuments
  \/ LocalEmbed

VecSpec == VecInit /\ [][VecNext]_vars

\* ------------------------------------------------------------- DemoSpec
(* app.py with the demo script runner used to its end: the session of Spec  *)
(* with room in the chat history for the four scripted steps, and the       *)
(* header toggles and the execute buttons beside the runner's button.       *)
DemoMaxMessages == 8

DemoInit == AppIdle /\ GenIdle /\ ConnIdle /\ LibIdle

RunDemoStep ==
  /\ screen.input
  /\ demo_step_index >= Len(steps) \/ Len(messages) + 2 <= DemoMaxMessages
  /\ Interact(Event("demo_step"))

DemoToggleDemo == Interact(Event("toggle_demo"))

DemoToggleExpert == Interact(Event("toggle_expert"))

DemoExecute ==
  \E key \in screen.previews :
    /\ Len(messages) < DemoMaxMessages
    /\ Interact([Event("execute") EXCEPT !.key = key])

DemoNext ==
  \/ RunDemoStep
  \/ DemoToggleDemo
  \/ DemoToggleExpert
  \/ DemoExecute

DemoSpec == DemoInit /\ [][DemoNext]_vars

\* ================================================================ claims
Last(s) == s[Len(s)]

\* a step in which an execute button's body ran (it alone appends a message
\* marked executed)
ExecuteStep ==
  /\ Len(messages') = Len(messages) + 1
  /\ Last(messages').meta.executed

\* the frames execute_sql can build without leaving the machine
LocalSamples ==
  {BuiltinVendorsDF, BuiltinBatchesDF, NoMatchDF,
   FileDF("vendors", SampleFileRows), FileDF("batches", SampleFileRows)}

\* C1: in demo mode an execution stores a frame of the local sample data (the
\* vendor sample, the batch sample or the one-row "no matching data" frame)
\* and makes no call to the Databricks connector.
C1_DemoExecutesLocally ==
  [][ExecuteStep /\ demo_mode'
       => /\ last_result' \in LocalSamples
          /\ connector_calls' = connector_calls]_vars

\* C1 witness: in demo mode a SQL text naming neither vendors nor batches was
\* executed and answered with the "no matching data" frame.
C1_Witness ==
  /\ demo_mode
  /\ last_result = NoMatchDF
  /\ messages # <<>> /\ Last(messages).meta.executed

\* the SQL previews of the chat history
Previews ==
  {messages[i].meta.sql_preview : i \in {j \in 1..Len(messages) :
      messages[j].role = "assistant" /\ messages[j].meta.sql_preview # <<>>}}

\* C2 (as claimed): in real mode with a Databricks configuration entered, an
\* execute click passes the preview's SQL to the connector and stores the
\* rows it returns as last_result.
C2_RealExecuteUsesConnector ==
  [][ExecuteStep /\ ~demo_mode' /\ config'.databricks = FilledDb
       => /\ Len(connector_calls') = Len(connector_calls) + 1
          /\ Last(connector_calls').sql \in Previews
          /\ last_result'.origin = "databricks"]_vars

\* a step in which the body of Export pinned to PPT ran: it ends in the
\* "module not available" notice or in the deck's download button
ExportStep ==
  \/ "Export module not available." \in notices'
  \/ download'.file_name = "dataweave_pinned.pptx"

\* C3 (as claimed): an export click with a non-empty pinned list offers for
\* download a deck of one title slide followed by one table slide per pinned
\* insight, in pin order.
C3_ExportBuildsDeck ==
  [][ExportStep /\ pinned' # <<>>
       => /\ download'.file_name = "dataweave_pinned.pptx"
          /\ Len(download'.deck) = Len(pinned') + 1
          /\ download'.deck[1].layout = "title"
          /\ \A i \in 1..Len(pinned') :
               /\ download'.deck[i + 1].layout = "table"
               /\ download'.deck[i + 1].title = pinned'[i].title]_vars

Occurs(kw, prompt) ==
  LET p == lower(Chars(prompt)) IN
  \E i \in 1..Len(p) :
    /\ i + Len(kw) - 1 <= Len(p)
    /\ \A j \in 1..Len(kw) : p[i + j - 1] = kw[j]

NotGenerated == [sql |-> <<>>, rationale |-> ""]

\* C5: demo_generate_sql returns one of its four literal pairs, and the
\* ORDER BY ... DESC LIMIT 5 vendor query for every prompt that contains both
\* "top" and "vendor", whatever else the prompt contains.
C5_TopVendorFirst ==
  g_result # NotGenerated
    => /\ g_result \in {PairTopVendors, PairLowVendors, PairTraceBatch, PairDefault}
       /\ Occurs(KwTop, g_prompt) /\ Occurs(KwVendor, g_prompt)
            => /\ g_result = PairTopVendors
               /\ SubSeq(g_result.sql, 7, 12) =
                    <<"ORDER", "BY", "on_time_delivery_rate", "DESC", "LIMIT", "5;">>

\* C5 witness: a prompt with "top" and "vendor" that also holds "lowest" got
\* the top-vendor query.
C5_Witness ==
  /\ g_result = PairTopVendors
  /\ Occurs(KwLowest, g_prompt)
  /\ Occurs(KwTop, g_prompt) /\ Occurs(KwVendor, g_prompt)

\* the place of a request in the order of the Jobs-API steps
Rank(step) ==
  CASE step = "upload" -> 1
    [] step = "submit" -> 2
    [] step = "status" -> 3
    [] step = "list" -> 4
    [] step = "read" -> 5
    [] OTHER -> 0

JobsRequests == {i \in 1..Len(c_requests) : Rank(c_requests[i].step) > 0}

\* C6: the Jobs-API requests come in the order upload, submit, status, list,
\* read: every request made before another one succeeded and belongs to the
\* same or an earlier step, no step is skipped, and the output directory is
\* listed only for a run whose final state is SUCCESS.
C6_RequestOrder ==
  /\ \A j \in JobsRequests :
       /\ \A i \in 1..(j - 1) :
            /\ c_requests[i].ok
            /\ Rank(c_requests[i].step) <= Rank(c_requests[j].step)
       /\ \A r \in 1..(Rank(c_requests[j].step) - 1) :
            \E i \in 1..(j - 1) : Rank(c_requests[i].step) = r
  /\ (\E j \in JobsRequests : Rank(c_requests[j].step) >= 4)
       => c_run.result_state = "SUCCESS"

\* C6 witness: a call went through all five steps and returned the frame.
C6_Witness ==
  /\ c_pc = "done"
  /\ c_jobs = Returned(TRUE, "DataFrame")
  /\ c_requests = <<Request("upload", TRUE), Request("submit", TRUE),
                    Request("status", TRUE), Request("list", TRUE),
                    Request("read", TRUE)>>

\* C7 (as claimed): a call of run_sql_via_jobs_api that has ended has
\* returned a pair, (True, DataFrame) or (False, error), and has not raised.
C7_NeverRaises ==
  c_pc = "done" /\ JobsRequests # {}
    => /\ c_jobs.kind = "returned"
       /\ c_jobs.ok => c_jobs.value = "DataFrame"

\* C8 (as claimed): a call of run_sql that has ended has returned a
\* DataFrame or raised RuntimeError.
C8_DataFrameOrRuntimeError ==
  c_pc = "done"
    => \/ c_result.kind = "DataFrame"
       \/ c_result.kind = "raised" /\ c_result.exc = "RuntimeError"

\* C9: a call of run_sql makes the requests of one path only: the SQL
\* connector's when db_http_path is set and the package is installed, and
\* then a failure raises RuntimeError with no Jobs-API request; otherwise
\* the Jobs API's, and none at all, but RuntimeError, when db_host, db_token
\* or db_cluster_id is missing.
C9_OnePath ==
  IF c_config.db_http_path # "" /\ c_has_dbsql
  THEN /\ JobsRequests = {}
       /\ c_pc = "done"
            => /\ Len(c_requests) = 1
               /\ ~c_requests[1].ok
                    => c_result = [kind |-> "raised", exc |-> "RuntimeError"]
  ELSE /\ JobsRequests = 1..Len(c_requests)
       /\ c_config.db_host = "" \/ c_config.db_token = "" \/ c_config.db_cluster_id = ""
            => /\ c_requests = <<>>
               /\ c_pc = "done"
                    => c_result = [kind |-> "raised", exc |-> "RuntimeError"]

\* C9 witness: the token is missing and the SQL connector is not used, and
\* the call ended in RuntimeError without a request.
C9_Witness ==
  /\ c_pc = "done"
  /\ c_config.db_host # "" /\ c_config.db_token = ""
  /\ c_requests = <<>>
  /\ c_result = [kind |-> "raised", exc |-> "RuntimeError"]

\* the ways out of the poll loop: a status that reports the run ended, the
\* timeout once more than Timeout seconds have passed, a failed status request
LeftPollLoop ==
  \/ /\ c_pc = "final"
     /\ \/ c_run.life_cycle_state \in {"TERMINATED", "SKIPPED", "INTERNAL_ERROR"}
        \/ c_run.result_state # ""
     /\ c_requests[Len(c_requests)] = Request("status", TRUE)
  \/ /\ c_pc = "done"
     /\ c_jobs = Returned(FALSE, "Timed out waiting for job completion")
     /\ c_clock - c_start > Timeout
  \/ /\ c_pc = "done"
     /\ c_jobs = Returned(FALSE, "Error polling run status")
     /\ c_requests[Len(c_requests)] = Request("status", FALSE)

\* C10: a call that has entered the poll loop leaves it: on a status that
\* reports the run ended, with the timed-out result once more than Timeout
\* seconds have passed since polling began, or on the first status request
\* that fails.
C10_PollLoopEnds == (c_pc = "poll") ~> LeftPollLoop

\* C10 witness: the run never ended and the call gave up after the timeout.
C10_Witness ==
  /\ c_pc = "done"
  /\ c_jobs = Returned(FALSE, "Timed out waiting for job completion")
  /\ c_clock - c_start > Timeout
  /\ c_run.life_cycle_state = "RUNNING"

\* C11: once a call of sync_schema_to_neo4j has returned True, no statement
\* of a later call with the same schema object and config adds a node or a
\* relationship: the graph after the second run is the graph after the first.
C11_Idempotent ==
  [][(\E i \in 1..Len(n_returns) : n_returns[i] = "True")
       => n_graph' = n_graph]_vars

\* C11 witness: two calls in a row returned True on a graph that held two
\* Table nodes of one name before the first, and relationships were merged.
C11_Witness ==
  /\ n_returns = <<"True", "True">>
  /\ \E v \in n_graph.nodes : v.id = 2 /\ v.label = "Table"
  /\ \E r \in n_graph.rels : r.type = "HAS_TABLE"
  /\ n_start = n_graph

\* C12 (as claimed): every call of sync_schema_to_neo4j ends by returning
\* True or False.
C12_ReturnsBool ==
  \A i \in 1..Len(n_returns) : n_returns[i] \in {"True", "False"}

\* what statement s merged is in the graph
Merged(graph, s) ==
  IF s.kind = "node" THEN Matching(graph, End(s.label, s.name)) # {}
  ELSE \A a \in Matching(graph, End(s.label, s.name)), b \in Matching(graph, s.to) :
         [type |-> s.type, from |-> a.id, to |-> b.id] \in graph.rels

\* C13: after a call that returned False, the statements issued are the
\* first ones of the schema object's statements up to the failing one and
\* none after it, the graph holds everything it held when the call began,
\* and it holds what each statement before the failing one merged.
C13_NoRollback ==
  n_pc.at = "done" /\ n_returns # <<>> /\ n_returns[Len(n_returns)] = "False"
    => /\ Len(n_issued) <= Len(Statements(n_schema))
       /\ n_issued = SubSeq(Statements(n_schema), 1, Len(n_issued))
       /\ n_start.nodes \subseteq n_graph.nodes
       /\ n_start.rels \subseteq n_graph.rels
       /\ \A k \in 1..(Len(n_issued) - 1) : Merged(n_graph, n_issued[k])

\* C13 witness: a column statement of the second table failed, and the
\* graph has kept what the call merged before it.
C13_Witness ==
  /\ n_pc.at = "done"
  /\ n_returns = <<"False">>
  /\ Len(n_issued) > 10
  /\ n_graph # n_start
  /\ Len(n_issued) < Len(Statements(n_schema))

\* C14 (as claimed): store_documents_and_embeddings has written every
\* uploaded file into the grounding directory and returned one entry
\* {name, path, provider} per uploaded file, in upload order, and nothing else.
C14_OneEntryPerFile ==
  v_pc = "stored"
    => /\ \A k \in 1..Len(v_files) : \E g \in v_dir : g.name = v_files[k].name
       /\ Len(v_stored) = Len(v_files)
       /\ \A k \in 1..Len(v_stored) :
            /\ v_stored[k].name = v_files[k].name
            /\ v_stored[k].error = ""

\* C15 (as claimed): _local_embed_texts has returned one vector per text, of
\* 128 components, each between 0 and 1.
C15_Vector128 ==
  v_pc = "embedded"
    => /\ Len(v_embs) = Len(v_files)
       /\ \A k \in 1..Len(v_embs) :
            /\ Len(v_embs[k]) = 128
            /\ \A i \in 1..Len(v_embs[k]) :
                 0 <= v_embs[k][i].num /\ v_embs[k][i].num <= v_embs[k][i].den

StepTaken == demo_step_index' = demo_step_index + 1

\* C18 (as claimed): demo_step_index stays within 0..4; a click of the
\* runner at an index below 4 appends the user message of the next scripted
\* prompt and the assistant message with its SQL preview and raises the
\* index by one; and at index 4 the runner's button is on the page for the
\* click that reports 'Demo finished.' and resets the index to 0.
C18_DemoQueue ==
  [][/\ demo_step_index' \in 0..4
     /\ StepTaken
          => /\ Len(messages') = Len(messages) + 2
             /\ SubSeq(messages', 1, Len(messages)) = messages
             /\ messages'[Len(messages) + 1] =
                  Message("user", steps[demo_step_index'], NoMeta)
             /\ messages'[Len(messages) + 2].role = "assistant"
             /\ messages'[Len(messages) + 2].meta.sql_preview =
                  demo_generate_sql(steps[demo_step_index']).sql
     /\ "Demo finished." \in notices'
          => demo_step_index = 4 /\ demo_step_index' = 0 /\ messages' = messages
     /\ demo_step_index' = 4 => screen'.input]_vars

====
